---- MODULE Spec2Model ----
(***************************************************************************)
(* A model of statiegeldNederland: the CHR settlement-file parser and      *)
(* aggregator (services/bag_service.py, app.py), the registration          *)
(* validator, and the reconciliation of bag totals against the             *)
(* spreadsheet ledger (services/sheet_service.py, sheetsmanager.py).       *)
(*                                                                         *)
(* Python strings are sequences of one-character strings, so that split,   *)
(* strip, replace, int(), float() and the string comparison are computed   *)
(* as the code computes them.  Money amounts are integers, in cents.       *)
(***************************************************************************)
EXTENDS Integers, Sequences, FiniteSets, TLC

VARIABLES
    chrIn,      \* the lines the CHR content was assembled from (fields and the amount meant)
    content,    \* the text of the CHR file handed to the parser
    chrResult,  \* what the parser returned or raised
    valIn,      \* the registration fields handed to validate_bag_data
    valResult,  \* the error mapping validate_bag_data returned
    sheet,      \* the ledger: the rows the spreadsheet's values.get returns
    last,       \* the last request handled: its operation, arguments, ledger calls and result
    procs,      \* the reconciliation requests in flight at the same time, each at its next ledger call
    upload      \* the upload request in flight: its position in upload_file and the saved archive

vars == <<chrIn, content, chrResult, valIn, valResult, sheet, last, procs, upload>>

(***************************************************************************)
(* Bounds of the model.                                                    *)
(***************************************************************************)
MaxLines == 3
MaxDataRows == 3
MaxBags == 2
MaxUploadLines == 2

(***************************************************************************)
(* Python str operations.                                                  *)
(***************************************************************************)
Ascii ==
    <<" ", "!", "\"", "#", "$", "%", "&", "'", "(", ")", "*", "+", ",", "-", ".", "/",
      "0", "1", "2", "3", "4", "5", "6", "7", "8", "9", ":", ";", "<", "=", ">", "?",
      "@", "A", "B", "C", "D", "E", "F", "G", "H", "I", "J", "K", "L", "M", "N", "O",
      "P", "Q", "R", "S", "T", "U", "V", "W", "X", "Y", "Z", "[", "\\", "]", "^", "_",
      "(backtick)", "a", "b", "c", "d", "e", "f", "g", "h", "i", "j", "k", "l", "m", "n", "o",
      "p", "q", "r", "s", "t", "u", "v", "w", "x", "y", "z", "{", "|", "}", "~">>

\* ord(c): the code point of a character
Ord(c) ==
    IF c = "\t" THEN 9
    ELSE IF c = "\n" THEN 10
    ELSE IF c = "\r" THEN 13
    ELSE 31 + (CHOOSE i \in 1..Len(Ascii) : Ascii[i] = c)

Whitespace == {" ", "\t", "\n", "\r"}

Digits == <<"0", "1", "2", "3", "4", "5", "6", "7", "8", "9">>

IsDigit(c) == \E i \in 1..10 : Digits[i] = c

DigitVal(c) == (CHOOSE i \in 1..10 : Digits[i] = c) - 1

\* s[n:]
DropFirst(s, n) == IF Len(s) <= n THEN <<>> ELSE SubSeq(s, n + 1, Len(s))

\* s.split(sep), sep one character: never empty, "" splits to [""]
Split(s, sep) ==
    LET seps == {i \in 1..Len(s) : s[i] = sep}
        n == Cardinality(seps)
        pos(k) == IF k = 0 THEN 0
                  ELSE IF k = n + 1 THEN Len(s) + 1
                  ELSE CHOOSE p \in seps : Cardinality({q \in seps : q < p}) = k - 1
    IN  [k \in 1..(n + 1) |-> SubSeq(s, pos(k - 1) + 1, pos(k) - 1)]

\* s.strip()
Strip(s) ==
    IF Len(s) = 0 THEN s
    ELSE IF s[1] \notin Whitespace /\ s[Len(s)] \notin Whitespace THEN s
    ELSE LET keep == {i \in 1..Len(s) : s[i] \notin Whitespace}
         IN  IF keep = {} THEN <<>>
             ELSE SubSeq(s, CHOOSE i \in keep : \A j \in keep : i <= j,
                            CHOOSE i \in keep : \A j \in keep : j <= i)

\* s.replace(a, b), a and b one character
Replace(s, a, b) == [i \in 1..Len(s) |-> IF s[i] = a THEN b ELSE s[i]]

\* sep.join(parts)
Join(parts, sep) ==
    LET f[i \in 0..Len(parts)] ==
            IF i = 0 THEN <<>>
            ELSE IF i = 1 THEN parts[1]
            ELSE f[i - 1] \o <<sep>> \o parts[i]
    IN  f[Len(parts)]

\* the value of a string of decimal digits
DigitsValue(s) ==
    LET f[i \in 0..Len(s)] == IF i = 0 THEN 0 ELSE 10 * f[i - 1] + DigitVal(s[i])
    IN  f[Len(s)]

AllDigits(s) == \A i \in 1..Len(s) : IsDigit(s[i])

\* a < b as Python compares str: by code point, a proper prefix first
StrLess(a, b) ==
    \E k \in 1..(Len(b)) :
        /\ \A j \in 1..(k - 1) : j <= Len(a) /\ a[j] = b[j]
        /\ Len(a) >= k - 1
        /\ IF Len(a) < k THEN TRUE ELSE Ord(a[k]) < Ord(b[k])

\* int(s): surrounding whitespace and one sign are accepted, then digits only
\* (the underscore digit separator of Python 3.6 is outside the alphabet drawn)
ParseInt(s) ==
    LET t == Strip(s)
        signed == Len(t) > 0 /\ t[1] \in {"+", "-"}
        d == IF signed THEN Tail(t) ELSE t
    IN  IF Len(d) > 0 /\ AllDigits(d)
        THEN [ok |-> TRUE, val |-> IF signed /\ t[1] = "-" THEN 0 - DigitsValue(d) ELSE DigitsValue(d)]
        ELSE [ok |-> FALSE, val |-> 0]

\* float(s) for decimal literals, in cents: whitespace, sign, digits, at most one
\* point and at most two digits after it (exponents, inf and nan are outside the
\* alphabet drawn); anything else raises ValueError
ParseFloat(s) ==
    LET t == Strip(s)
        signed == Len(t) > 0 /\ t[1] \in {"+", "-"}
        d == IF signed THEN Tail(t) ELSE t
        parts == Split(d, ".")
        whole == parts[1]
        frac == IF Len(parts) = 2 THEN parts[2] ELSE <<>>
        mag == 100 * DigitsValue(whole)
               + (IF Len(frac) = 0 THEN 0
                  ELSE IF Len(frac) = 1 THEN 10 * DigitsValue(frac)
                  ELSE DigitsValue(frac))
    IN  IF /\ Len(parts) <= 2
           /\ AllDigits(whole) /\ AllDigits(frac)
           /\ Len(whole) + Len(frac) > 0
           /\ Len(frac) <= 2
        THEN [ok |-> TRUE, val |-> IF signed /\ t[1] = "-" THEN 0 - mag ELSE mag]
        ELSE [ok |-> FALSE, val |-> 0]

(***************************************************************************)
(* BagService.process_chr_content and app.process_chr_file.                *)
(***************************************************************************)
NoResult == [st |-> "none"]

\* values[8][1:] != '50', negated: the record is status-excluded
StatusIsFiftyWhole(values) == values[9] = <<"5", "0">>

StatusIsFifty(values) == DropFirst(values[9], 1) = <<"5", "0">>

\* the length test alone
AcceptsLineAnyStatus(values) == Len(values) > 10

\* len(values) > 10 and values[8][1:] != '50'
AcceptsLine(values) == Len(values) > 10 /\ ~StatusIsFifty(values)

\* bags_dict[bag_id] += amount on a defaultdict(float): a new key goes last
AddBagOverwrite(bags, id, amount) ==
    IF \E i \in 1..Len(bags) : bags[i].id = id
    THEN [i \in 1..Len(bags) |-> IF bags[i].id = id THEN [id |-> id, amount |-> amount] ELSE bags[i]]
    ELSE Append(bags, [id |-> id, amount |-> amount])

AddBagFirst(bags, id, amount) ==
    IF \E i \in 1..Len(bags) : bags[i].id = id
    THEN [i \in 1..Len(bags) |->
            IF bags[i].id = id THEN [id |-> id, amount |-> bags[i].amount + amount] ELSE bags[i]]
    ELSE <<[id |-> id, amount |-> amount]>> \o bags

AddBag(bags, id, amount) ==
    IF \E i \in 1..Len(bags) : bags[i].id = id
    THEN [i \in 1..Len(bags) |->
            IF bags[i].id = id THEN [id |-> id, amount |-> bags[i].amount + amount] ELSE bags[i]]
    ELSE Append(bags, [id |-> id, amount |-> amount])

\* lines[0].split(';')[7], IndexError when the first line has fewer than 8 fields
ProcessingDateOffByOne(lines) ==
    LET first == Split(lines[1], ";")
    IN  IF Len(first) < 7 THEN [ok |-> FALSE, val |-> <<>>] ELSE [ok |-> TRUE, val |-> first[7]]

ProcessingDate(lines) ==
    LET first == Split(lines[1], ";")
    IN  IF Len(first) < 8 THEN [ok |-> FALSE, val |-> <<>>] ELSE [ok |-> TRUE, val |-> first[8]]

\* one turn of the loop over lines in process_chr_content
ChrStepSkipUnparsable(acc, line) ==
    IF ~acc.ok \/ Strip(line) = <<>> THEN acc
    ELSE LET values == Split(line, ";")
             counted == [acc EXCEPT !.processed_lines = @ + 1]
         IN  IF AcceptsLine(values)
             THEN LET amount == ParseFloat(Replace(values[11], ",", "."))
                  IN  IF ~amount.ok THEN counted
                      ELSE [counted EXCEPT !.bags = AddBag(@, values[6], amount.val),
                                           !.total_money = @ + amount.val]
             ELSE counted

ChrStep(acc, line) ==
    IF ~acc.ok \/ Strip(line) = <<>> THEN acc
    ELSE LET values == Split(line, ";")
             counted == [acc EXCEPT !.processed_lines = @ + 1]
         IN  IF AcceptsLine(values)
             THEN LET amount == ParseFloat(Replace(values[11], ",", "."))
                  IN  IF ~amount.ok THEN [counted EXCEPT !.ok = FALSE]
                      ELSE [counted EXCEPT !.bags = AddBag(@, values[6], amount.val),
                                           !.total_money = @ + amount.val]
             ELSE counted

\* one turn of the loop of app.process_chr_file: no length test before values[8]
ChrFileStep(acc, line) ==
    IF ~acc.ok \/ Strip(line) = <<>> THEN acc
    ELSE LET values == Split(line, ";")
             counted == [acc EXCEPT !.processed_lines = @ + 1]
         IN  IF Len(values) < 9 THEN [counted EXCEPT !.ok = FALSE]
             ELSE IF StatusIsFifty(values) THEN counted
             ELSE IF Len(values) < 11 THEN [counted EXCEPT !.ok = FALSE]
             ELSE LET amount == ParseFloat(Replace(values[11], ",", "."))
                  IN  IF ~amount.ok THEN [counted EXCEPT !.ok = FALSE]
                      ELSE [counted EXCEPT !.bags = AddBag(@, values[6], amount.val),
                                           !.total_money = @ + amount.val]

\* the loop over the lines, with the body of either variant
ChrLoop(lines, variant) ==
    LET f[i \in 0..Len(lines)] ==
            IF i = 0 THEN [ok |-> TRUE, processed_lines |-> 0, bags |-> <<>>, total_money |-> 0]
            ELSE IF variant = "service" THEN ChrStep(f[i - 1], lines[i])
            ELSE ChrFileStep(f[i - 1], lines[i])
    IN  f[Len(lines)]

InvalidFormat(variant) == [st |-> "error", variant |-> variant, error |-> "ValueError"]

\* BagService.process_chr_content(content)
ProcessChrContent(text) ==
    LET lines == Split(text, "\n")
        date == ProcessingDate(lines)
        acc == ChrLoop(lines, "service")
    IN  IF ~date.ok \/ ~acc.ok THEN InvalidFormat("service")
        ELSE [st |-> "ok", variant |-> "service",
              processed_lines |-> acc.processed_lines, bags |-> acc.bags,
              total_money |-> acc.total_money, processing_date |-> date.val]

\* app.process_chr_file on the text of the file: any exception becomes a
\* one-element list, which is no (lines, bags, total, date) result
ProcessChrFile(text) ==
    LET lines == Split(text, "\n")
        date == ProcessingDate(lines)
        acc == ChrLoop(lines, "app")
    IN  IF ~date.ok \/ ~acc.ok THEN [st |-> "error", variant |-> "app", error |-> "Exception"]
        ELSE [st |-> "ok", variant |-> "app",
              processed_lines |-> acc.processed_lines, bags |-> acc.bags,
              total_money |-> acc.total_money, processing_date |-> date.val]

(***************************************************************************)
(* The CHR contents checked: every file of 1..MaxLines lines drawn from    *)
(* ChrLines.  A line is kept as the fields it was written from, with the   *)
(* amount its field 10 means (cents) and whether that text is a number.    *)
(***************************************************************************)
E == <<>>
tH == <<"H">>
tB1 == <<"B", "1">>
tB2 == <<"B", "2">>
tB3 == <<"B", "3">>
tDateA == <<"1", "-", "2">>
tDateB == <<"2", "-", "1">>
tOpen == <<"X", "0", "0">>
tDone == <<"X", "5", "0">>
tFifty == <<"5", "0">>

ChrLine(fields, cents, bad) == [fields |-> fields, cents |-> cents, bad |-> bad]

\* a transaction line of 11 fields: bag id in field 5, date in 7, status in 8, amount in 10
TxLine(id, status, amountText, cents, bad) ==
    ChrLine(<<E, E, E, E, E, id, E, tDateB, status, E, amountText>>, cents, bad)

ChrLines ==
    { ChrLine(<<tH, E, E, E, E, E, E, tDateA>>, 0, FALSE),              \* header, 8 fields
      ChrLine(<<tH, E, E, E>>, 0, FALSE),                               \* 4 fields
      ChrLine(<< <<" ", " ">> >>, 0, FALSE),                            \* blanks only
      ChrLine(<<E>>, 0, FALSE),                                         \* empty line
      ChrLine(<<E, E, E, E, E, tB2, E, tDateB, tOpen, E>>, 0, FALSE),   \* 10 fields
      TxLine(tB1, tOpen, <<"1", "0", ",", "0", "0">>, 1000, FALSE),
      TxLine(tB2, tOpen, <<"-", "5", ",", "5", "0">>, 0 - 550, FALSE),
      TxLine(tB1, tDone, <<"7", ",", "2", "5">>, 725, FALSE),
      TxLine(tB3, tFifty, <<"1", "2", ",", "5">>, 1250, FALSE),
      TxLine(tB1, tOpen, <<"x">>, 0, TRUE),
      TxLine(tB2, tDone, <<"x">>, 0, TRUE) }

SeqsUpTo(S, n) == UNION {[1..k -> S] : k \in 1..n}

\* the text of a file: fields joined by ';', lines joined by line feeds
ChrText(lines) == Join([i \in 1..Len(lines) |-> Join(lines[i].fields, ";")], "\n")

InitLedgerIdle ==
    /\ sheet = <<>>
    /\ last = [op |-> "none"]

InitChrIdle ==
    /\ chrIn = <<>>
    /\ content = <<>>
    /\ chrResult = NoResult

InitValIdle ==
    /\ valIn = <<>>
    /\ valResult = NoResult

InitRaceIdle == procs = <<>>

InitUploadIdle == upload = [pc |-> "none"]

InitChr ==
    /\ chrIn \in SeqsUpTo(ChrLines, MaxLines)
    /\ content = ChrText(chrIn)
    /\ chrResult = NoResult
    /\ InitValIdle
    /\ InitLedgerIdle
    /\ InitRaceIdle
    /\ InitUploadIdle

\* BagService.process_chr_content(content) is called
ParseContent ==
    /\ chrResult = NoResult
    /\ chrResult' = ProcessChrContent(content)
    /\ UNCHANGED <<chrIn, content, valIn, valResult, sheet, last, procs, upload>>

\* app.process_chr_file reads the same text from the extracted file
ParseFile ==
    /\ chrResult = NoResult
    /\ chrResult' = ProcessChrFile(content)
    /\ UNCHANGED <<chrIn, content, valIn, valResult, sheet, last, procs, upload>>

NextChr == ParseContent \/ ParseFile

SpecChr == InitChr /\ [][NextChr]_vars

(***************************************************************************)
(* What the lines of a file mean, read off the fields they were written    *)
(* from.                                                                   *)
(***************************************************************************)
RefNonEmpty(l) ==
    \/ Len(l.fields) > 1
    \/ \E i \in 1..Len(l.fields[1]) : l.fields[1][i] \notin Whitespace

\* field 8 without its first character is "50"
RefStatusFifty(l) ==
    /\ Len(l.fields) >= 9
    /\ Len(l.fields[9]) = 3
    /\ l.fields[9][2] = "5" /\ l.fields[9][3] = "0"

RefAccepted(l) == RefNonEmpty(l) /\ Len(l.fields) >= 11 /\ ~RefStatusFifty(l)

\* the sum of the amounts meant by the accepted lines among those numbered in idx
RefSum(lines, idx) ==
    LET f[i \in 0..Len(lines)] ==
            IF i = 0 THEN 0
            ELSE f[i - 1] + (IF i \in idx /\ RefAccepted(lines[i]) THEN lines[i].cents ELSE 0)
    IN  f[Len(lines)]

\* the lines that carry bag id id in field 5
RefLinesOf(lines, id) == {i \in 1..Len(lines) : Len(lines[i].fields) >= 6 /\ lines[i].fields[6] = id}

SumAmounts(bags) ==
    LET f[i \in 0..Len(bags)] == IF i = 0 THEN 0 ELSE f[i - 1] + bags[i].amount
    IN  f[Len(bags)]

BagIdsOf(bags) == {bags[i].id : i \in 1..Len(bags)}

\* C5: whenever the parser returns, the amounts of the returned bags add up to the
\* returned grand total (amounts in cents).
C5_SumEqualsTotal ==
    chrResult.st = "ok" => SumAmounts(chrResult.bags) = chrResult.total_money

\* C5 witness: process_chr_content returned two bags, one of them summed over two lines.
C5_Witness ==
    /\ chrResult.st = "ok" /\ chrResult.variant = "service"
    /\ Len(chrResult.bags) = 2
    /\ Cardinality({i \in 1..Len(chrIn) : RefAccepted(chrIn[i])}) = 3
    /\ chrResult.total_money # 0

\* C6: a line whose field 8 minus its first character is "50" adds nothing: the grand
\* total and every bag's total are the sums over the other accepted lines, its bag id
\* gets no entry unless an accepted line carries it, and it still counts as a
\* non-empty line.
C6_StatusFiftyExcluded ==
    chrResult.st = "ok" =>
        /\ chrResult.total_money = RefSum(chrIn, 1..Len(chrIn))
        /\ \A i \in 1..Len(chrIn) :
              RefStatusFifty(chrIn[i]) =>
                  LET id == chrIn[i].fields[6]
                      carried == \E j \in RefLinesOf(chrIn, id) : RefAccepted(chrIn[j])
                  IN  /\ carried <=> id \in BagIdsOf(chrResult.bags)
                      /\ \A k \in 1..Len(chrResult.bags) :
                            chrResult.bags[k].id = id =>
                                chrResult.bags[k].amount = RefSum(chrIn, RefLinesOf(chrIn, id))
        /\ chrResult.processed_lines
              = Cardinality({i \in 1..Len(chrIn) : RefNonEmpty(chrIn[i])})

\* C6 witness: the parser returned for a file with a status-50 line whose bag id no
\* accepted line carries, and another accepted line.
C6_Witness ==
    /\ chrResult.st = "ok" /\ chrResult.variant = "service"
    /\ chrResult.total_money # 0
    /\ \E i \in 1..Len(chrIn) :
          /\ RefStatusFifty(chrIn[i])
          /\ chrIn[i].cents # 0
          /\ chrIn[i].fields[6] \notin BagIdsOf(chrResult.bags)

\* C10: process_chr_content raises ValueError, with no counts, bags or total, whenever
\* the first line has fewer than 8 fields (the empty content included); and when it
\* returns, the processing date is field 7 of the first line as written.
C10_FirstLineDate ==
    (chrResult.st # "none" /\ chrResult.variant = "service") =>
        /\ Len(chrIn[1].fields) < 8 =>
              /\ chrResult.st = "error" /\ chrResult.error = "ValueError"
              /\ DOMAIN chrResult \cap {"processed_lines", "bags", "total_money", "processing_date"} = {}
        /\ chrResult.st = "ok" =>
              /\ Len(chrIn[1].fields) >= 8
              /\ chrResult.processing_date = chrIn[1].fields[8]

\* C10 witness: process_chr_content returned the date of a first line that is itself a
\* transaction.
C10_Witness ==
    /\ chrResult.st = "ok" /\ chrResult.variant = "service"
    /\ Len(chrIn[1].fields) = 11
    /\ chrResult.processing_date = tDateB
    /\ Len(chrResult.bags) > 0

\* C10, second case reached: the empty content raised ValueError
C10_EmptyRaises ==
    (content = <<>> /\ chrResult.st # "none" /\ chrResult.variant = "service")
        => chrResult.st = "error"

\* C11: when some non-empty line of at least 11 fields that is not status-excluded
\* carries in field 10 a text that is no number once ',' is replaced by '.',
\* process_chr_content raises the invalid-format ValueError and returns no count, bag
\* list, total or date, whatever the lines before it were.
C11_UnparsableAmountAborts ==
    (chrResult.st # "none" /\ chrResult.variant = "service") =>
        ((\E i \in 1..Len(chrIn) : RefAccepted(chrIn[i]) /\ chrIn[i].bad) =>
            /\ chrResult = InvalidFormat("service")
            /\ DOMAIN chrResult \cap {"processed_lines", "bags", "total_money", "processing_date"} = {})

\* C11 witness: process_chr_content raised on a file whose last line carries the
\* unparsable amount, after two accepted lines with amounts and a usable first line.
C11_Witness ==
    /\ chrResult.st = "error" /\ chrResult.variant = "service"
    /\ Len(chrIn) = 3
    /\ RefAccepted(chrIn[3]) /\ chrIn[3].bad
    /\ \A i \in 1..2 : RefAccepted(chrIn[i]) /\ ~chrIn[i].bad /\ chrIn[i].cents # 0

\* the first accepted line that carries bag id id (0 when there is none)
RefFirstLine(lines, id) ==
    LET S == {i \in RefLinesOf(lines, id) : RefAccepted(lines[i])}
    IN  IF S = {} THEN 0 ELSE CHOOSE i \in S : \A j \in S : i <= j

\* C12: the list process_chr_content returns has exactly one entry for each bag id
\* carried by an accepted line, the entries stand in the order in which the ids first
\* occur in the file, and each amount is the sum of field 10 over the accepted lines of
\* that id, read with ',' as the decimal separator.
C12_OneEntryPerBagInOrder ==
    (chrResult.st = "ok" /\ chrResult.variant = "service") =>
        LET bags == chrResult.bags
        IN  /\ BagIdsOf(bags) = {chrIn[i].fields[6] : i \in {j \in 1..Len(chrIn) : RefAccepted(chrIn[j])}}
            /\ \A k, m \in 1..Len(bags) :
                  k < m => /\ bags[k].id # bags[m].id
                           /\ RefFirstLine(chrIn, bags[k].id) < RefFirstLine(chrIn, bags[m].id)
            /\ \A k \in 1..Len(bags) :
                  bags[k].amount = RefSum(chrIn, RefLinesOf(chrIn, bags[k].id))

\* C12 witness: bag B2 occurs on the first and the last line and bag B1 in between;
\* the list is B2 with -5,50 twice, then B1 with 10,00.
C12_Witness ==
    /\ chrResult.st = "ok" /\ chrResult.variant = "service"
    /\ Len(chrIn) = 3
    /\ chrResult.bags = <<[id |-> tB2, amount |-> 0 - 1100], [id |-> tB1, amount |-> 1000]>>

\* a non-empty line of fewer than 11 fields
RefShort(l) == RefNonEmpty(l) /\ Len(l.fields) < 11

\* what a parse returns when it went through the whole file: every non-empty line
\* counted, the totals summed over the accepted lines
RefAggregated(result, lines) ==
    /\ result.st = "ok"
    /\ result.processed_lines = Cardinality({i \in 1..Len(lines) : RefNonEmpty(lines[i])})
    /\ result.total_money = RefSum(lines, 1..Len(lines))
    /\ \A k \in 1..Len(result.bags) :
          result.bags[k].amount = RefSum(lines, RefLinesOf(lines, result.bags[k].id))

\* a file that gives no other cause to abort: the first line has the 8 fields the
\* processing date is read from and no accepted line carries an unparsable amount
RefParsable(lines) ==
    /\ Len(lines[1].fields) >= 8
    /\ \A i \in 1..Len(lines) : RefAccepted(lines[i]) => ~lines[i].bad

\* C20: a non-empty line of fewer than 11 fields adds nothing and does not abort the
\* parse: in a file with such a line (and no other cause to abort) the parse returns,
\* the short line is counted, and the totals are the sums over the accepted lines,
\* those after the short line included.  Stated of both parsers.
C20_ShortLineSkipped ==
    (chrResult.st # "none" /\ RefParsable(chrIn) /\ \E i \in 1..Len(chrIn) : RefShort(chrIn[i]))
        => RefAggregated(chrResult, chrIn)

\* C20 for BagService.process_chr_content alone, which tests len(values) > 10
C20_ServiceSkipsShortLine ==
    (chrResult.st # "none" /\ chrResult.variant = "service"
        /\ RefParsable(chrIn) /\ \E i \in 1..Len(chrIn) : RefShort(chrIn[i]))
        => RefAggregated(chrResult, chrIn)

\* C20, the case reached in process_chr_content: a 10-field line between two accepted
\* lines, three lines counted and both amounts in the total
C20_ServiceCase ==
    /\ chrResult.st = "ok" /\ chrResult.variant = "service"
    /\ Len(chrIn) = 3 /\ chrResult.processed_lines = 3
    /\ Len(chrIn[2].fields) = 10
    /\ RefAccepted(chrIn[1]) /\ RefAccepted(chrIn[3])
    /\ chrResult.total_money = chrIn[1].cents + chrIn[3].cents
    /\ chrIn[3].cents # 0

\* no line of the file is accepted for aggregation
RefNoneAccepted(lines) == \A i \in 1..Len(lines) : ~RefAccepted(lines[i])

\* C21 as stated: when no line is accepted (every non-empty line is too short or
\* status-excluded, or there is none), process_chr_content returns an empty bag list
\* and a total of zero, and raises no error.
C21_NoneAcceptedReturnsEmpty ==
    (chrResult.st # "none" /\ chrResult.variant = "service" /\ RefNoneAccepted(chrIn)) =>
        /\ chrResult.st = "ok"
        /\ chrResult.bags = <<>>
        /\ chrResult.total_money = 0

\* C21 for contents whose first line has the 8 fields the processing date is read
\* from: no accepted line gives the empty list and zero; with a shorter first line
\* (the empty content included) the same content raises ValueError.
C21_NoneAcceptedAfterDatedLine ==
    (chrResult.st # "none" /\ chrResult.variant = "service" /\ RefNoneAccepted(chrIn)) =>
        IF Len(chrIn[1].fields) >= 8
        THEN /\ chrResult.st = "ok"
             /\ chrResult.bags = <<>>
             /\ chrResult.total_money = 0
             /\ chrResult.processed_lines = Cardinality({i \in 1..Len(chrIn) : RefNonEmpty(chrIn[i])})
        ELSE chrResult = InvalidFormat("service")

\* C21 witness: a header line, a 10-field line and a status-50 line with an amount
\* gave three lines counted, no bag and a total of zero.
C21_Witness ==
    /\ chrResult.st = "ok" /\ chrResult.variant = "service"
    /\ Len(chrIn) = 3
    /\ Len(chrIn[1].fields) = 8
    /\ Len(chrIn[2].fields) = 10
    /\ RefStatusFifty(chrIn[3]) /\ chrIn[3].cents # 0
    /\ chrResult.bags = <<>> /\ chrResult.total_money = 0 /\ chrResult.processed_lines = 3

(***************************************************************************)
(* BagService.validate_bag_data.                                           *)
(***************************************************************************)
tMini == <<"M", "i", "n", "i">>
tSmall == <<"S", "m", "a", "l", "l">>
tLarge == <<"L", "a", "r", "g", "e">>

\* errors[key] = message
Put(m, k, v) == [x \in DOMAIN m \cup {k} |-> IF x = k THEN v ELSE m[x]]

NoErrors == [x \in {} |-> ""]

\* a validator that returns at the first invalid field
ValidateFirstOnly(bag_id, source, bag_type, date) ==
    IF bag_id = <<>> \/ Strip(bag_id) = <<>> THEN Put(NoErrors, "bag_id", "Bag ID is required")
    ELSE IF source = <<>> \/ Strip(source) = <<>> THEN Put(NoErrors, "source", "Source is required")
    ELSE IF bag_type \notin {tMini, tSmall} THEN Put(NoErrors, "bag_type", "Invalid bag type")
    ELSE IF date = <<>> THEN Put(NoErrors, "date", "Date is required")
    ELSE NoErrors

\* a validator that lets every bag type through
ValidateAnyType(bag_id, source, bag_type, date) ==
    LET e1 == IF bag_id = <<>> \/ Strip(bag_id) = <<>>
              THEN Put(NoErrors, "bag_id", "Bag ID is required") ELSE NoErrors
        e2 == IF source = <<>> \/ Strip(source) = <<>>
              THEN Put(e1, "source", "Source is required") ELSE e1
    IN  IF date = <<>> THEN Put(e2, "date", "Date is required") ELSE e2

ValidateBagData(bag_id, source, bag_type, date) ==
    LET e1 == IF bag_id = <<>> \/ Strip(bag_id) = <<>>
              THEN Put(NoErrors, "bag_id", "Bag ID is required") ELSE NoErrors
        e2 == IF source = <<>> \/ Strip(source) = <<>>
              THEN Put(e1, "source", "Source is required") ELSE e1
        e3 == IF bag_type \notin {tMini, tSmall}
              THEN Put(e2, "bag_type", "Invalid bag type") ELSE e2
    IN  IF date = <<>> THEN Put(e3, "date", "Date is required") ELSE e3

ValIds == {<<>>, <<" ">>, <<"4", "2">>, <<" ", "7">>}
ValSources == {<<>>, <<"\t", " ">>, <<"P">>}
ValTypes == {tMini, tSmall, tLarge, <<"m", "i", "n", "i">>, <<>>, <<"M", "i", "n", "i", " ">>}
ValDates == {<<>>, <<" ">>, tDateA}

InitVal ==
    /\ valIn \in [bag_id : ValIds, source : ValSources, bag_type : ValTypes, date : ValDates]
    /\ valResult = NoResult
    /\ InitChrIdle
    /\ InitLedgerIdle
    /\ InitRaceIdle
    /\ InitUploadIdle

\* BagService.validate_bag_data is called on the submitted fields
Validate ==
    /\ valResult = NoResult
    /\ valResult' = [st |-> "ok",
                     errors |-> ValidateBagData(valIn.bag_id, valIn.source,
                                                valIn.bag_type, valIn.date)]
    /\ UNCHANGED <<chrIn, content, chrResult, valIn, sheet, last, procs, upload>>

NextVal == Validate

SpecVal == InitVal /\ [][NextVal]_vars

RefBlank(s) == \A i \in 1..Len(s) : s[i] \in Whitespace

\* C9: validate_bag_data reports each invalid field, whatever the other fields are:
\* 'bag_id' iff the id is empty or blank, 'source' iff the source is empty or blank,
\* 'bag_type' iff the type is neither "Mini" nor "Small", 'date' iff the date is empty;
\* the mapping is empty exactly when all four are valid.
C9_ValidateAllFields ==
    valResult.st = "ok" =>
        LET e == valResult.errors
            badType == ~(valIn.bag_type = tMini \/ valIn.bag_type = tSmall)
        IN  /\ DOMAIN e \subseteq {"bag_id", "source", "bag_type", "date"}
            /\ "bag_id" \in DOMAIN e <=> RefBlank(valIn.bag_id)
            /\ "source" \in DOMAIN e <=> RefBlank(valIn.source)
            /\ "bag_type" \in DOMAIN e <=> badType
            /\ "date" \in DOMAIN e <=> Len(valIn.date) = 0
            /\ DOMAIN e = {} <=> /\ ~RefBlank(valIn.bag_id) /\ ~RefBlank(valIn.source)
                                 /\ ~badType /\ Len(valIn.date) > 0

\* C9 witness: all four fields were invalid and all four errors were returned.
C9_Witness ==
    /\ valResult.st = "ok"
    /\ DOMAIN valResult.errors = {"bag_id", "source", "bag_type", "date"}
    /\ valIn.bag_id = <<" ">> /\ valIn.bag_type = tLarge

(***************************************************************************)
(* The ledger.  sheet holds what spreadsheets().values().get returns for   *)
(* the whole sheet: a list of rows, each a list of cell texts, with the    *)
(* trailing empty cells of a row and the trailing empty rows left out.     *)
(* A cell keeps the text that was written to it.                           *)
(***************************************************************************)
nZaknummer == <<"Z", "a", "k", "n", "u", "m", "m", "e", "r">>
nBron == <<"B", "r", "o", "n">>
nType == <<"T", "y", "p", "e">>
nAfgiftedatum == <<"A", "f", "g", "i", "f", "t", "e", "d", "a", "t", "u", "m">>
nVerwerkt == <<"V", "e", "r", "w", "e", "r", "k", "t">>
nVerwerkingsdatum ==
    <<"V", "e", "r", "w", "e", "r", "k", "i", "n", "g", "s", "d", "a", "t", "u", "m">>
nBedrag == <<"B", "e", "d", "r", "a", "g">>
tX == <<"X">>

Min(S) == CHOOSE x \in S : \A y \in S : x <= y

Max(S) == CHOOSE x \in S : \A y \in S : y <= x

\* a row as values.get returns it: no trailing empty cells
TrimRow(row) ==
    LET full == {i \in 1..Len(row) : row[i] # <<>>}
    IN  IF full = {} THEN <<>> ELSE SubSeq(row, 1, Max(full))

\* the rows as values.get returns them: no trailing empty rows
TrimRows(rows) ==
    LET full == {i \in 1..Len(rows) : rows[i] # <<>>}
    IN  IF full = {} THEN <<>> ELSE SubSeq(rows, 1, Max(full))

\* SheetsManager.read_sheet(spreadsheet_id, sheet_name)
ReadSheet(sh) == sh

\* a search that finds nothing
FindRowNone(values, search_value, column_index) == 0

\* SheetsManager.find_row_by_value: the first row, from row 1 on, whose cell in the
\* column equals the value; 0 stands for None
FindRowByValue(values, search_value, column_index) ==
    LET hits == {i \in 1..Len(values) :
                    /\ Len(values[i]) > column_index
                    /\ values[i][column_index + 1] = search_value}
    IN  IF hits = {} THEN 0 ELSE Min(hits)

\* the values written from column A on, wherever the range starts
WriteCellsFromA(sh, row_number, first_col, vals) ==
    LET rows == [i \in 1..Max({Len(sh), row_number}) |-> IF i <= Len(sh) THEN sh[i] ELSE <<>>]
        old == rows[row_number]
        width == Max({Len(old), Len(vals)})
        new == [j \in 1..width |-> IF j <= Len(vals) THEN vals[j] ELSE old[j]]
    IN  TrimRows([i \in 1..Len(rows) |-> IF i = row_number THEN TrimRow(new) ELSE rows[i]])

\* values().update on the range of row row_number that starts in column first_col
\* (1 for A) and is Len(vals) cells wide
WriteCells(sh, row_number, first_col, vals) ==
    LET rows == [i \in 1..Max({Len(sh), row_number}) |-> IF i <= Len(sh) THEN sh[i] ELSE <<>>]
        old == rows[row_number]
        width == Max({Len(old), first_col + Len(vals) - 1})
        new == [j \in 1..width |->
                   IF j >= first_col /\ j < first_col + Len(vals) THEN vals[j - first_col + 1]
                   ELSE IF j <= Len(old) THEN old[j] ELSE <<>>]
    IN  TrimRows([i \in 1..Len(rows) |-> IF i = row_number THEN TrimRow(new) ELSE rows[i]])

\* the empty row inserted one row too high
InsertEmptyRowAbove(sh, row_number) ==
    IF row_number - 1 > Len(sh) THEN sh
    ELSE [i \in 1..(Len(sh) + 1) |->
             IF i < row_number - 1 THEN sh[i] ELSE IF i = row_number - 1 THEN <<>> ELSE sh[i - 1]]

\* batchUpdate insertDimension of one row before row row_number: the rows from there
\* on move down by one
InsertEmptyRow(sh, row_number) ==
    IF row_number > Len(sh) THEN sh
    ELSE [i \in 1..(Len(sh) + 1) |->
             IF i < row_number THEN sh[i] ELSE IF i = row_number THEN <<>> ELSE sh[i - 1]]

\* SheetsManager._index_to_column_letter
IndexToColumnLetter(index) ==
    LET f[q \in -1..index] ==
            IF q < 0 THEN <<>> ELSE f[(q \div 26) - 1] \o <<Ascii[34 + (q % 26)]>>
    IN  f[index]

\* SheetsManager.get_column_names on header row 1: the values of the row, or
\* ValueError when that row is empty; empty headers skipped, names stripped, a
\* repeated name keeps its last column
GetColumnNames(sh) ==
    LET header == IF Len(sh) = 0 THEN <<>> ELSE sh[1]
        named == {i \in 1..Len(header) : header[i] # <<>>}
        names == {Strip(header[i]) : i \in named}
    IN  IF header = <<>> THEN [ok |-> FALSE, columns |-> <<>>]
        ELSE [ok |-> TRUE,
              columns |-> [n \in names |->
                  IndexToColumnLetter(Max({i \in named : Strip(header[i]) = n}) - 1)]]

\* ord(columns[name]) - ord('A'); ord raises TypeError on a two-letter column
ColumnIndex(letter) ==
    IF Len(letter) = 1 THEN [ok |-> TRUE, val |-> Ord(letter[1]) - Ord("A")]
    ELSE [ok |-> FALSE, val |-> 0]

\* repr of a float amount, as the request body carries it: 12.5, 10.0, -5.5, 0.05
IntText(n) ==
    LET f[k \in 0..n] == IF k < 10 THEN <<Digits[k + 1]>> ELSE f[k \div 10] \o <<Digits[(k % 10) + 1]>>
    IN  f[n]

FormatAmount(cents) ==
    LET a == IF cents < 0 THEN 0 - cents ELSE cents
        frac == a % 100
        fracText == IF frac % 10 = 0 THEN <<Digits[(frac \div 10) + 1]>>
                    ELSE <<Digits[(frac \div 10) + 1], Digits[(frac % 10) + 1]>>
    IN  (IF cents < 0 THEN <<"-">> ELSE <<>>) \o IntText(a \div 100) \o <<".">> \o fracText

(***************************************************************************)
(* A request's ledger calls are numbered as they are made; the calls       *)
(* whose number is in the set F fail (raise).  A context carries the       *)
(* ledger, the number of calls made and their log.                         *)
(***************************************************************************)
Call(ctx, name, F) ==
    [ctx EXCEPT !.n = @ + 1,
                !.calls = Append(@, [name |-> name, ok |-> (ctx.n + 1) \notin F])]

Failed(ctx) == ~ctx.calls[Len(ctx.calls)].ok

\* the comparison as text only
CellGreaterAsText(cell, target_id) == StrLess(target_id, cell)

\* current_id > target_id_int of the two int() results, or row[col_index] > target_id
\* when either int() raises
IntOrTextGreater(current_id, target_id_int, cell, target_id) ==
    IF current_id.ok /\ target_id_int.ok THEN current_id.val > target_id_int.val
    ELSE StrLess(target_id, cell)

CellGreater(cell, target_id) ==
    IntOrTextGreater(ParseInt(cell), ParseInt(target_id), cell, target_id)

\* the first of the rows, or the row after the last when there is none
FirstRowOr(rows, after_last) == IF rows = {} THEN after_last ELSE Min(rows)

\* the row after the last, whatever the rows hold
InsertPositionAtEnd(all_data, target_id, col_index) == Len(all_data) + 1

\* the loop of _find_insert_position over the rows read
InsertPositionIn(all_data, target_id, col_index) ==
    FirstRowOr({i \in 2..Len(all_data) :
                   /\ Len(all_data[i]) > col_index
                   /\ all_data[i][col_index + 1] # <<>>
                   /\ CellGreater(all_data[i][col_index + 1], target_id)},
               Len(all_data) + 1)

\* the except branch of _find_insert_position: the end of a second read, or row 2
\* when that read fails too
PositionAfterFailedRead(c2) ==
    [ctx |-> c2, position |-> IF ~Failed(c2) THEN Len(ReadSheet(c2.sheet)) + 1 ELSE 2]

PositionAfterRead(c1, target_id, col_index, F) ==
    IF ~Failed(c1)
    THEN [ctx |-> c1, position |-> InsertPositionIn(ReadSheet(c1.sheet), target_id, col_index)]
    ELSE PositionAfterFailedRead(Call(c1, "read_sheet", F))

\* SheetService._find_insert_position
FindInsertPosition(ctx, target_id, col_index, F) ==
    PositionAfterRead(Call(ctx, "read_sheet", F), target_id, col_index, F)

\* SheetsManager.insert_row: the values are written to A..G of the new row
WriteInsertedRow(c3, row_number, values) ==
    IF Failed(c3) THEN [ctx |-> c3, ok |-> FALSE]
    ELSE [ctx |-> [c3 EXCEPT !.sheet = WriteCells(@, row_number, 1, values)], ok |-> TRUE]

\* the row and its values in one step: nothing is inserted when the write fails
WriteWholeRow(c3, row_number, values) ==
    IF Failed(c3) THEN [ctx |-> c3, ok |-> FALSE]
    ELSE [ctx |-> [c3 EXCEPT !.sheet = WriteCells(InsertEmptyRow(@, row_number), row_number, 1, values)],
          ok |-> TRUE]

InsertRowAllOrNothing(c2, row_number, values, F) ==
    IF Failed(c2) THEN [ctx |-> c2, ok |-> FALSE]
    ELSE WriteWholeRow(Call(c2, "write_to_sheet", F), row_number, values)

\* SheetsManager.insert_row: an empty row is inserted, then the values are written
InsertRow(c2, row_number, values, F) ==
    IF Failed(c2) THEN [ctx |-> c2, ok |-> FALSE]
    ELSE WriteInsertedRow(Call([c2 EXCEPT !.sheet = InsertEmptyRow(@, row_number)],
                               "write_to_sheet", F),
                          row_number, values)

InsertRowWithSheetId(c1, row_number, values, F) ==
    IF Failed(c1) THEN [ctx |-> c1, ok |-> FALSE]
    ELSE InsertRow(Call(c1, "insert_dimension", F), row_number, values, F)

\* insert_row_by_name: the sheet id is looked up, then insert_row
InsertRowByName(ctx, row_number, values, F) ==
    InsertRowWithSheetId(Call(ctx, "get_sheet_id", F), row_number, values, F)

(***************************************************************************)
(* SheetService.                                                           *)
(***************************************************************************)
RequiredColumns == <<nZaknummer, nVerwerkt, nVerwerkingsdatum, nBedrag>>

\* what _update_or_insert_bag returns ('updated', 'inserted' and the row) or that it
\* raised ('error')
BagOutcome(ctx, action, row) == [ctx |-> ctx, action |-> action, row |-> row]

\* the update branch: E..G of the row found are written
UpdateRow(c2, row_num, marks) ==
    IF Failed(c2) THEN BagOutcome(c2, "error", row_num)
    ELSE BagOutcome([c2 EXCEPT !.sheet = WriteCells(@, row_num, 5, marks)], "updated", row_num)

InsertedRow(ins, position) ==
    BagOutcome(ins.ctx, IF ins.ok THEN "inserted" ELSE "error", position)

\* the insert branch: the row is inserted at the position found
InsertBagAt(pos, bag, marks, F) ==
    InsertedRow(InsertRowByName(pos.ctx, pos.position, <<bag.id, <<>>, <<>>, <<>>>> \o marks, F),
                pos.position)

UpdateOrInsertFound(c1, row_num, bag, marks, zaknummer_col_index, F) ==
    IF Failed(c1) THEN BagOutcome(c1, "error", 0)
    ELSE IF row_num # 0 THEN UpdateRow(Call(c1, "write_to_sheet", F), row_num, marks)
    ELSE InsertBagAt(FindInsertPosition(c1, bag.id, zaknummer_col_index, F), bag, marks, F)

\* SheetService._update_or_insert_bag
UpdateOrInsertBag(ctx, bag, processing_date, zaknummer_col_index, F) ==
    UpdateOrInsertFound(Call(ctx, "find_row_by_value", F),
                        FindRowByValue(ReadSheet(ctx.sheet), bag.id, zaknummer_col_index),
                        bag, <<tX, processing_date, FormatAmount(bag.amount)>>,
                        zaknummer_col_index, F)

\* the result of a bag is counted, and an exception is appended to errors
RecordBag(done, bag, r) ==
    [ctx |-> r.ctx,
     outcomes |-> Append(done.outcomes, [id |-> bag.id, action |-> r.action, row |-> r.row])]

\* one pass of the loop of update_bags_in_sheet
BagStep(done, bag, processing_date, zaknummer_col_index, F) ==
    RecordBag(done, bag,
              UpdateOrInsertBag(done.ctx, bag, processing_date, zaknummer_col_index, F))

HasError(done) == \E k \in 1..Len(done.outcomes) : done.outcomes[k].action = "error"

\* the loop of app.update_sheet: the first exception ends the batch
BagLoopStopAtError(ctx, bags, processing_date, zaknummer_col_index, F) ==
    LET f[i \in 0..Len(bags)] ==
            IF i = 0 THEN [ctx |-> ctx, outcomes |-> <<>>]
            ELSE IF HasError(f[i - 1]) THEN f[i - 1]
            ELSE BagStep(f[i - 1], bags[i], processing_date, zaknummer_col_index, F)
    IN  f[Len(bags)]

\* the loop of update_bags_in_sheet over the bags: after an exception the loop goes on
BagLoop(ctx, bags, processing_date, zaknummer_col_index, F) ==
    LET f[i \in 0..Len(bags)] ==
            IF i = 0 THEN [ctx |-> ctx, outcomes |-> <<>>]
            ELSE BagStep(f[i - 1], bags[i], processing_date, zaknummer_col_index, F)
    IN  f[Len(bags)]

CountOf(outcomes, action) ==
    Cardinality({i \in 1..Len(outcomes) : outcomes[i].action = action})

NoOutcome == [success |-> FALSE, kind |-> "", updated |-> 0, inserted |-> 0, outcomes |-> <<>>, missing |-> <<>>]

\* the required columns missing from the mapping, in the order of required_columns
MissingNone(columns) == <<>>

MissingColumns(columns) ==
    SelectSeq(RequiredColumns, LAMBDA col : col \notin DOMAIN columns)

\* the except of update_bags_in_sheet: 'Error accessing sheet'
AccessError(c1) ==
    [sheet |-> c1.sheet, calls |-> c1.calls,
     result |-> [NoOutcome EXCEPT !.kind = "access_error"]]

\* the two results after the loop
BatchResult(done, errors) ==
    [sheet |-> done.ctx.sheet, calls |-> done.ctx.calls,
     result |-> [success |-> errors = 0,
                 kind |-> IF errors = 0 THEN "processed" ELSE "errors",
                 updated |-> CountOf(done.outcomes, "updated"),
                 inserted |-> CountOf(done.outcomes, "inserted"),
                 outcomes |-> done.outcomes,
                 missing |-> <<>>]]

BatchDone(done) == BatchResult(done, CountOf(done.outcomes, "error"))

ProcessBags(c1, zak, processing_date, bags, F) ==
    IF ~zak.ok THEN AccessError(c1)
    ELSE BatchDone(BagLoop(c1, bags, processing_date, zak.val, F))

CheckColumns(c1, columns, missing, processing_date, bags, F) ==
    IF missing # <<>>
    THEN [sheet |-> c1.sheet, calls |-> c1.calls,
          result |-> [NoOutcome EXCEPT !.kind = "missing_columns", !.missing = missing]]
    ELSE ProcessBags(c1, ColumnIndex(columns[nZaknummer]), processing_date, bags, F)

WithColumns(c1, cols, processing_date, bags, F) ==
    IF Failed(c1) \/ ~cols.ok THEN AccessError(c1)
    ELSE CheckColumns(c1, cols.columns, MissingColumns(cols.columns), processing_date, bags, F)

\* SheetService.update_bags_in_sheet: the ledger after it, its calls and its result
UpdateBagsInSheet(sh, processing_date, bags, F) ==
    WithColumns(Call([sheet |-> sh, n |-> 0, calls |-> <<>>], "get_column_names", F),
                GetColumnNames(ReadSheet(sh)), processing_date, bags, F)

\* the except of register_bag: 'Error registering bag'
RegisterError(c) ==
    [sheet |-> c.sheet, calls |-> c.calls,
     result |-> [success |-> FALSE, kind |-> "error", row |-> 0]]

RegisteredRow(ins, position) ==
    IF ~ins.ok THEN RegisterError(ins.ctx)
    ELSE [sheet |-> ins.ctx.sheet, calls |-> ins.ctx.calls,
          result |-> [success |-> TRUE, kind |-> "registered", row |-> position]]

RegisterAt(pos, bag_id, source, bag_type, date, F) ==
    RegisteredRow(InsertRowByName(pos.ctx, pos.position,
                                  <<bag_id, source, bag_type, date, <<>>, <<>>, <<>>>>, F),
                  pos.position)

\* the position looked up by bag id in column A
RegisterFoundByBagId(c2, existing_row, afgiftedatum_col_index, bag_id, source, bag_type, date, F) ==
    IF Failed(c2) THEN RegisterError(c2)
    ELSE IF existing_row # 0
    THEN [sheet |-> c2.sheet, calls |-> c2.calls,
          result |-> [success |-> FALSE, kind |-> "already_exists", row |-> existing_row]]
    ELSE RegisterAt(FindInsertPosition(c2, bag_id, 0, F), bag_id, source, bag_type, date, F)

RegisterFound(c2, existing_row, afgiftedatum_col_index, bag_id, source, bag_type, date, F) ==
    IF Failed(c2) THEN RegisterError(c2)
    ELSE IF existing_row # 0
    THEN [sheet |-> c2.sheet, calls |-> c2.calls,
          result |-> [success |-> FALSE, kind |-> "already_exists", row |-> existing_row]]
    ELSE RegisterAt(FindInsertPosition(c2, date, afgiftedatum_col_index, F),
                    bag_id, source, bag_type, date, F)

RegisterInColumns(c1, zak, afg, bag_id, source, bag_type, date, F) ==
    IF ~zak.ok \/ ~afg.ok THEN RegisterError(c1)
    ELSE RegisterFound(Call(c1, "find_row_by_value", F),
                       FindRowByValue(ReadSheet(c1.sheet), bag_id, zak.val),
                       afg.val, bag_id, source, bag_type, date, F)

RegisterWithColumns(c1, cols, bag_id, source, bag_type, date, F) ==
    IF Failed(c1) \/ ~cols.ok THEN RegisterError(c1)
    ELSE IF {nZaknummer, nAfgiftedatum} \ DOMAIN cols.columns # {} THEN RegisterError(c1)
    ELSE RegisterInColumns(c1, ColumnIndex(cols.columns[nZaknummer]),
                           ColumnIndex(cols.columns[nAfgiftedatum]),
                           bag_id, source, bag_type, date, F)

\* SheetService.register_bag: the ledger after it, its calls and its result
RegisterBag(sh, bag_id, source, bag_type, date, F) ==
    RegisterWithColumns(Call([sheet |-> sh, n |-> 0, calls |-> <<>>], "get_column_names", F),
                        GetColumnNames(ReadSheet(sh)), bag_id, source, bag_type, date, F)

SubmitValidated(sh, errors, bag_id, source, bag_type, date, F) ==
    IF DOMAIN errors # {}
    THEN [sheet |-> sh, calls |-> <<>>,
          result |-> [success |-> FALSE, kind |-> "invalid", row |-> 0], errors |-> errors]
    ELSE RegisterBag(sh, bag_id, source, bag_type, date, F) @@ [errors |-> errors]

\* the registration of one submitted bag (section 4.4 of the specification): the
\* fields are validated, and only a valid bag goes on to register_bag
SubmitRegistration(sh, bag_id, source, bag_type, date, F) ==
    SubmitValidated(sh, ValidateBagData(bag_id, source, bag_type, date),
                    bag_id, source, bag_type, date, F)

(***************************************************************************)
(* The requests checked against the ledger.                                *)
(***************************************************************************)
\* a request makes at most one call for the header and six for each bag
CallsOf(n) == 1 + 6 * n

StandardHeader ==
    <<nZaknummer, nBron, nType, nAfgiftedatum, nVerwerkt, nVerwerkingsdatum, nBedrag>>
\* the bag-id column second
ShiftedHeader ==
    <<nBron, nZaknummer, nType, nAfgiftedatum, nVerwerkt, nVerwerkingsdatum, nBedrag>>
\* no Bedrag column
ShortHeader == <<nZaknummer, nBron, nType, nAfgiftedatum, nVerwerkt, nVerwerkingsdatum>>

Headers == {StandardHeader, ShiftedHeader, ShortHeader}

BagIds == {<<"5">>, <<"7">>, <<"1", "0">>}
Amounts == {1250}
ProcessingDates == {tDateA}
IssueDates == {tDateA, tDateB}
Sources == {<<"P">>}

\* the registrations submitted: valid ones, and bag "42" with type "Large"
Submissions(dates) ==
    [bag_id : BagIds, source : Sources, bag_type : {tMini}, date : dates]
        \cup {[bag_id |-> <<"4", "2">>, source |-> <<"P">>, bag_type |-> tLarge, date |-> tDateA]}

\* the bag lists process_chr_content can return: distinct ids
BagLists ==
    {b \in SeqsUpTo([id : BagIds, amount : Amounts], MaxBags) :
        \A i, j \in 1..Len(b) : i # j => b[i].id # b[j].id}

\* the ledger fails for one call or for two calls in a row, or not at all
FaultSets(n) == {{}} \cup {{k} : k \in 1..n} \cup {{k, k + 1} : k \in 1..(n - 1)}

DataRows(sh) == Len(sh) - 1

Idle == last.op = "none"

Init ==
    /\ sheet \in {<<h>> : h \in Headers}
    /\ last = [op |-> "none"]
    /\ InitChrIdle
    /\ InitValIdle
    /\ InitRaceIdle
    /\ InitUploadIdle

\* the request went through: the ledger is as the calls left it and the caller has
\* the result
ReconcileDone(processing_date, bags, F, r) ==
    /\ F \subseteq 1..Len(r.calls)
    /\ DataRows(r.sheet) <= MaxDataRows
    /\ sheet' = r.sheet
    /\ last' = [op |-> "reconcile", processing_date |-> processing_date,
                bags |-> bags, calls |-> r.calls, result |-> r.result]
    /\ UNCHANGED <<chrIn, content, chrResult, valIn, valResult, procs, upload>>

\* a reconciliation request: update_bags_in_sheet with the date and bags of a file,
\* during which the ledger calls numbered in F fail
ReconcileRequest(processing_date, bags, F) ==
    /\ Idle
    /\ ReconcileDone(processing_date, bags, F,
                     UpdateBagsInSheet(sheet, processing_date, bags, F))

RegisterDone(sub, F, r) ==
    /\ F \subseteq 1..Len(r.calls)
    /\ DataRows(r.sheet) <= MaxDataRows
    /\ sheet' = r.sheet
    /\ last' = [op |-> "register", bag_id |-> sub.bag_id, source |-> sub.source,
                bag_type |-> sub.bag_type, date |-> sub.date, calls |-> r.calls,
                result |-> r.result, errors |-> r.errors]
    /\ UNCHANGED <<chrIn, content, chrResult, valIn, valResult, procs, upload>>

\* a registration request for one bag, during which the ledger calls numbered in F fail
RegisterRequest(sub, F) ==
    /\ Idle
    /\ RegisterDone(sub, F,
                    SubmitRegistration(sheet, sub.bag_id, sub.source, sub.bag_type, sub.date, F))

\* the response is delivered; the next request starts from the ledger as it is
Respond ==
    /\ ~Idle
    /\ last' = [op |-> "none"]
    /\ UNCHANGED <<chrIn, content, chrResult, valIn, valResult, sheet, procs, upload>>

\* requests handled one after the other, every ledger call succeeding
Reconcile ==
    \E processing_date \in ProcessingDates, bags \in BagLists :
        ReconcileRequest(processing_date, bags, {})

Register == \E sub \in Submissions(IssueDates) : RegisterRequest(sub, {})

Next == Reconcile \/ Register \/ Respond

Spec == Init /\ [][Next]_vars

\* requests handled one after the other on the standard layout, with failing ledger
\* calls
InitFaults ==
    /\ sheet = <<StandardHeader>>
    /\ last = [op |-> "none"]
    /\ InitChrIdle
    /\ InitValIdle
    /\ InitRaceIdle
    /\ InitUploadIdle

ReconcileFaulty ==
    \E processing_date \in ProcessingDates, bags \in BagLists :
        \E F \in FaultSets(CallsOf(Len(bags))) :
            ReconcileRequest(processing_date, bags, F)

RegisterFaulty ==
    \E sub \in Submissions(ProcessingDates), F \in FaultSets(CallsOf(1)) : RegisterRequest(sub, F)

NextFaults == ReconcileFaulty \/ RegisterFaulty \/ Respond

SpecFaults == InitFaults /\ [][NextFaults]_vars

\* requests handled one after the other, among them requests for a bag whose id is
\* the text of the Zaknummer header cell
ReconcileHeaderText ==
    \E processing_date \in ProcessingDates, amount \in Amounts :
        ReconcileRequest(processing_date, <<[id |-> nZaknummer, amount |-> amount]>>, {})

RegisterHeaderText ==
    \E source \in Sources, date \in ProcessingDates :
        RegisterRequest([bag_id |-> nZaknummer, source |-> source, bag_type |-> tMini, date |-> date], {})

NextHeaderText == Reconcile \/ Register \/ Respond \/ ReconcileHeaderText \/ RegisterHeaderText

SpecHeaderText == Init /\ [][NextHeaderText]_vars

(***************************************************************************)
(* Two reconciliation requests at the same time.  Each is                  *)
(* update_bags_in_sheet for one bag, and takes one step for each call it   *)
(* makes to the spreadsheet service; the service handles the calls one at  *)
(* a time, in any order of arrival.  A request keeps what a call returned  *)
(* (the column index, the row found, the position) in its local variables. *)
(***************************************************************************)
Requests == 1..2

\* a row as reconciliation inserts it
ReconciledRow(id, processing_date, amount) ==
    <<id, <<>>, <<>>, <<>>, tX, processing_date, FormatAmount(amount)>>

\* the ledgers the two requests start from: the header, and bags 5 and 10 or not
RaceLedgers ==
    {<<StandardHeader>> \o rows : rows \in
        {<<>>, <<ReconciledRow(<<"5">>, tDateB, 1250)>>, <<ReconciledRow(<<"1", "0">>, tDateB, 1250)>>,
         <<ReconciledRow(<<"5">>, tDateB, 1250), ReconciledRow(<<"1", "0">>, tDateB, 1250)>>}}

NewRequest(bag, processing_date) ==
    [pc |-> "get_column_names", bag |-> bag, processing_date |-> processing_date,
     zaknummer_col_index |-> 0, row_num |-> 0, position |-> 0, action |-> "", overwrote |-> FALSE]

InitRace ==
    /\ sheet \in RaceLedgers
    /\ procs \in [Requests -> {NewRequest(bag, tDateA) : bag \in [id : BagIds, amount : Amounts]}]
    /\ last = [op |-> "none"]
    /\ InitChrIdle
    /\ InitValIdle
    /\ InitUploadIdle

\* the request moves on with what the call returned
Proceed(p, next) ==
    /\ procs' = [q \in Requests |-> IF q = p THEN next ELSE procs[q]]
    /\ UNCHANGED <<chrIn, content, chrResult, valIn, valResult, last, upload>>

\* update_bags_in_sheet: get_column_names and the test of the required columns
ColumnsRead(req, cols) ==
    IF ~cols.ok \/ MissingColumns(cols.columns) # <<>>
    THEN [req EXCEPT !.pc = "done", !.action = "aborted"]
    ELSE [req EXCEPT !.pc = "find_row_by_value",
                     !.zaknummer_col_index = ColumnIndex(cols.columns[nZaknummer]).val]

RaceColumns(p) ==
    /\ procs[p].pc = "get_column_names"
    /\ Proceed(p, ColumnsRead(procs[p], GetColumnNames(ReadSheet(sheet))))
    /\ UNCHANGED sheet

\* _update_or_insert_bag: find_row_by_value, then one branch or the other
RowSearched(req, row_num) ==
    [req EXCEPT !.row_num = row_num,
                !.pc = IF row_num # 0 THEN "write_to_sheet" ELSE "read_sheet"]

RaceFind(p) ==
    /\ procs[p].pc = "find_row_by_value"
    /\ Proceed(p, RowSearched(procs[p],
                              FindRowByValue(ReadSheet(sheet), procs[p].bag.id,
                                             procs[p].zaknummer_col_index)))
    /\ UNCHANGED sheet

\* the update branch: write_to_sheet on E..G of the row found
RaceUpdate(p) ==
    /\ procs[p].pc = "write_to_sheet"
    /\ sheet' = WriteCells(sheet, procs[p].row_num, 5,
                           <<tX, procs[p].processing_date, FormatAmount(procs[p].bag.amount)>>)
    /\ Proceed(p, [procs[p] EXCEPT !.pc = "done", !.action = "updated"])

\* _find_insert_position: read_sheet and the loop over the rows read
RaceReadPosition(p) ==
    /\ procs[p].pc = "read_sheet"
    /\ Proceed(p, [procs[p] EXCEPT !.pc = "get_sheet_id",
                                   !.position = InsertPositionIn(ReadSheet(sheet), procs[p].bag.id,
                                                                 procs[p].zaknummer_col_index)])
    /\ UNCHANGED sheet

\* insert_row_by_name: get_sheet_id
RaceSheetId(p) ==
    /\ procs[p].pc = "get_sheet_id"
    /\ Proceed(p, [procs[p] EXCEPT !.pc = "insert_dimension"])
    /\ UNCHANGED sheet

\* insert_row: the batchUpdate that inserts an empty row at the position
RaceInsertDimension(p) ==
    /\ procs[p].pc = "insert_dimension"
    /\ sheet' = InsertEmptyRow(sheet, procs[p].position)
    /\ Proceed(p, [procs[p] EXCEPT !.pc = "write_row"])

\* the values are written only when no row holds the bag yet
RaceWriteRowUnlessPresent(p) ==
    /\ procs[p].pc = "write_row"
    /\ LET present == FindRowByValue(ReadSheet(sheet), procs[p].bag.id,
                                     procs[p].zaknummer_col_index) # 0
       IN  /\ sheet' = IF present THEN sheet
                       ELSE WriteCells(sheet, procs[p].position, 1,
                                       ReconciledRow(procs[p].bag.id, procs[p].processing_date,
                                                     procs[p].bag.amount))
           /\ Proceed(p, [procs[p] EXCEPT !.pc = "done",
                                          !.action = IF present THEN "updated" ELSE "inserted"])

\* insert_row: write_to_sheet of the values to A..G of the row at the position;
\* overwrote records that the row was not empty when the values arrived
RaceWriteRow(p) ==
    /\ procs[p].pc = "write_row"
    /\ sheet' = WriteCells(sheet, procs[p].position, 1,
                           ReconciledRow(procs[p].bag.id, procs[p].processing_date,
                                         procs[p].bag.amount))
    /\ Proceed(p, [procs[p] EXCEPT !.pc = "done", !.action = "inserted",
                                   !.overwrote = /\ procs[p].position <= Len(sheet)
                                                 /\ sheet[procs[p].position] # <<>>])

NextRace ==
    \E p \in Requests :
        \/ RaceColumns(p)
        \/ RaceFind(p)
        \/ RaceUpdate(p)
        \/ RaceReadPosition(p)
        \/ RaceSheetId(p)
        \/ RaceInsertDimension(p)
        \/ RaceWriteRow(p)

SpecRace == InitRace /\ [][NextRace]_vars

(***************************************************************************)
(* app.update_sheet: the reconciliation the upload route runs.  It answers *)
(* with a status text and stops at the first bag that raises.              *)
(***************************************************************************)
UpdateSheetLoop(ctx, bags, processing_date, zaknummer_col_index, F) ==
    LET f[i \in 0..Len(bags)] ==
            IF i = 0 THEN [ctx |-> ctx, outcomes |-> <<>>]
            ELSE IF HasError(f[i - 1]) THEN f[i - 1]
            ELSE BagStep(f[i - 1], bags[i], processing_date, zaknummer_col_index, F)
    IN  f[Len(bags)]

SheetStatus(ctx, status) == [sheet |-> ctx.sheet, calls |-> ctx.calls, status |-> status]

UpdateSheetDone(done) ==
    SheetStatus(done.ctx, IF HasError(done) THEN "bag_error" ELSE "success")

UpdateSheetBags(c1, zak, processing_date, bags, F) ==
    IF ~zak.ok THEN SheetStatus(c1, "access_error")
    ELSE UpdateSheetDone(UpdateSheetLoop(c1, bags, processing_date, zak.val, F))

UpdateSheetChecked(c1, columns, missing, processing_date, bags, F) ==
    IF missing # <<>> THEN SheetStatus(c1, "missing_columns")
    ELSE UpdateSheetBags(c1, ColumnIndex(columns[nZaknummer]), processing_date, bags, F)

UpdateSheetWithColumns(c1, cols, processing_date, bags, F) ==
    IF Failed(c1) \/ ~cols.ok THEN SheetStatus(c1, "access_error")
    ELSE UpdateSheetChecked(c1, cols.columns, MissingColumns(cols.columns),
                            processing_date, bags, F)

\* app.update_sheet: the ledger after it, its calls and the status it returns
UpdateSheet(sh, processing_date, bags, F) ==
    UpdateSheetWithColumns(Call([sheet |-> sh, n |-> 0, calls |-> <<>>], "get_column_names", F),
                           GetColumnNames(ReadSheet(sh)), processing_date, bags, F)

(***************************************************************************)
(* app.upload_file, step by step.  The request carries no file, a file     *)
(* that is not named .zip, a .zip that is no archive, an archive without a *)
(* .chr file, or an archive with a .chr file whose text is content.        *)
(***************************************************************************)
Archives == {"no_file", "not_zip", "corrupt", "no_chr", "chr"}

\* the ledger calls that fail during an upload: none, the header read, or the search
\* for the first bag
UploadFaultSets == {{}, {1}, {2}}

\* finally: if os.path.exists(file_path): os.remove(file_path)
CleanupSkipped(exists) == exists

CleanupFile(exists) == FALSE

InitUpload ==
    /\ \E archive \in Archives :
          /\ upload = [pc |-> "request", archive |-> archive, saved |-> FALSE,
                       exists |-> FALSE, exit |-> "", status |-> ""]
          /\ IF archive = "chr" THEN chrIn \in SeqsUpTo(ChrLines, MaxUploadLines) ELSE chrIn = <<>>
    /\ content = ChrText(chrIn)
    /\ chrResult = NoResult
    /\ sheet \in {<<StandardHeader>>, <<ShortHeader>>}
    /\ last = [op |-> "none"]
    /\ InitValIdle
    /\ InitRaceIdle

\* no file, or not a .zip name: the request is answered and nothing is saved;
\* otherwise file.save(file_path)
UploadReceive ==
    /\ upload.pc = "request"
    /\ upload' = IF upload.archive \in {"no_file", "not_zip"}
                 THEN [upload EXCEPT !.pc = "done", !.exit = "rejected"]
                 ELSE [upload EXCEPT !.pc = "extract", !.saved = TRUE, !.exists = TRUE]
    /\ UNCHANGED <<chrIn, content, chrResult, valIn, valResult, sheet, last, procs>>

\* zipfile.ZipFile(file_path).extractall(temp_dir), BadZipFile on a corrupt archive
UploadExtract ==
    /\ upload.pc = "extract"
    /\ upload' = IF upload.archive = "corrupt"
                 THEN [upload EXCEPT !.pc = "finally", !.exit = "invalid_zip"]
                 ELSE [upload EXCEPT !.pc = "walk"]
    /\ UNCHANGED <<chrIn, content, chrResult, valIn, valResult, sheet, last, procs>>

\* the walk for .chr files; without one the request is answered from inside the try
UploadWalk ==
    /\ upload.pc = "walk"
    /\ upload' = IF upload.archive = "no_chr"
                 THEN [upload EXCEPT !.pc = "finally", !.exit = "no_chr"]
                 ELSE [upload EXCEPT !.pc = "parse"]
    /\ UNCHANGED <<chrIn, content, chrResult, valIn, valResult, sheet, last, procs>>

\* process_chr_file; its one-element error list does not unpack into four names
Parsed(r) ==
    IF r.st = "ok" THEN [upload EXCEPT !.pc = "remove"]
    ELSE [upload EXCEPT !.pc = "finally", !.exit = "parse_error"]

UploadParse ==
    /\ upload.pc = "parse"
    /\ chrResult' = ProcessChrFile(content)
    /\ upload' = Parsed(chrResult')
    /\ UNCHANGED <<chrIn, content, valIn, valResult, sheet, last, procs>>

\* os.remove(file_path) after the parse
UploadRemove ==
    /\ upload.pc = "remove"
    /\ upload' = [upload EXCEPT !.pc = "update_sheet", !.exists = FALSE]
    /\ UNCHANGED <<chrIn, content, chrResult, valIn, valResult, sheet, last, procs>>

LedgerAnswered(F, r) ==
    /\ F \subseteq 1..Len(r.calls)
    /\ sheet' = r.sheet
    /\ upload' = [upload EXCEPT !.pc = "finally", !.exit = "result", !.status = r.status]
    /\ UNCHANGED <<chrIn, content, chrResult, valIn, valResult, last, procs>>

\* update_sheet(process_date, processed_bags), then the result page
UploadLedger ==
    /\ upload.pc = "update_sheet"
    /\ \E F \in UploadFaultSets :
          LedgerAnswered(F, UpdateSheet(sheet, chrResult.processing_date, chrResult.bags, F))

\* the finally clause
UploadFinally ==
    /\ upload.pc = "finally"
    /\ upload' = [upload EXCEPT !.pc = "done", !.exists = CleanupFile(upload.exists)]
    /\ UNCHANGED <<chrIn, content, chrResult, valIn, valResult, sheet, last, procs>>

NextUpload ==
    \/ UploadReceive
    \/ UploadExtract
    \/ UploadWalk
    \/ UploadParse
    \/ UploadRemove
    \/ UploadLedger
    \/ UploadFinally

SpecUpload == InitUpload /\ [][NextUpload]_vars

(***************************************************************************)
(* Reading the ledger for the claims, independently of the client code.    *)
(***************************************************************************)
\* the position of the Zaknummer header in row 1, 0 when there is none
KeyColumn(sh) ==
    LET at == {i \in 1..Len(sh[1]) : sh[1][i] = nZaknummer}
    IN  IF at = {} THEN 0 ELSE Max(at)

CellAt(sh, i, j) == IF j >= 1 /\ j <= Len(sh[i]) THEN sh[i][j] ELSE <<>>

\* the non-empty cells of the Zaknummer column, top to bottom, header excluded
KeyCells(sh) ==
    SelectSeq([i \in 1..(Len(sh) - 1) |-> CellAt(sh, i + 1, KeyColumn(sh))],
              LAMBDA cell : cell # <<>>)

AllNumeric(cells) == \A i \in 1..Len(cells) : Len(cells[i]) > 0 /\ AllDigits(cells[i])

Ascending(cells) ==
    \A i, j \in 1..Len(cells) : i < j => DigitsValue(cells[i]) <= DigitsValue(cells[j])

InKeyColumn(sh, id) == \E i \in 1..Len(KeyCells(sh)) : KeyCells(sh)[i] = id

\* the required columns that row 1 does not name
RefMissing(sh) ==
    {RequiredColumns[k] : k \in {k \in 1..Len(RequiredColumns) :
        \A i \in 1..Len(sh[1]) : sh[1][i] # RequiredColumns[k]}}

Range(seq) == {seq[i] : i \in 1..Len(seq)}

CallNames(calls) == {calls[i].name : i \in 1..Len(calls)}

\* the calls that failed, the reads of the insert-position lookup aside
FailedBagCalls(calls) ==
    {i \in 1..Len(calls) : ~calls[i].ok /\ calls[i].name # "read_sheet"}

FailedCalls(calls) == {i \in 1..Len(calls) : ~calls[i].ok}

\* the batch got past the header and went through its bags
BatchRan == last.op = "reconcile" /\ last.result.kind \in {"processed", "errors"}

\* a row of the ledger holds the bag with the marker, the date and the amount
HasReconciledRow(sh, bag, processing_date) ==
    \E i \in 2..Len(sh) :
        /\ CellAt(sh, i, 1) = bag.id
        /\ CellAt(sh, i, 5) = tX
        /\ CellAt(sh, i, 6) = processing_date
        /\ CellAt(sh, i, 7) = FormatAmount(bag.amount)

(***************************************************************************)
(* Claims about reconciliation and registration.                           *)
(***************************************************************************)
\* the run left the ledger as it was and inserted no row
NoChangeBy(again) == again.sheet = sheet /\ again.result.inserted = 0

\* C1: running update_bags_in_sheet a second time with the same bags and the same
\* processing date leaves the ledger as the first run left it and inserts no row.
C1_RerunIsNoOp ==
    last.op = "reconcile" =>
        NoChangeBy(UpdateBagsInSheet(sheet, last.processing_date, last.bags, {}))

\* C1 on the layout whose first column is Zaknummer: there the second run changes
\* nothing.
C1_RerunIsNoOpInColumnA ==
    (last.op = "reconcile" /\ KeyColumn(sheet) = 1) =>
        NoChangeBy(UpdateBagsInSheet(sheet, last.processing_date, last.bags, {}))

C3_MissingColumnsAbort ==
    [][(/\ Idle
        /\ last'.op = "reconcile"
        /\ RefMissing(sheet) # {})
       => /\ last'.result.kind = "missing_columns"
          /\ ~last'.result.success
          /\ Range(last'.result.missing) = RefMissing(sheet)
          /\ CallNames(last'.calls) = {"get_column_names"}
          /\ sheet' = sheet]_vars

\* C3 witness: a batch of two bags was refused for the missing Bedrag column on a
\* ledger that holds rows.
C3_Witness ==
    /\ last.op = "reconcile"
    /\ last.result.kind = "missing_columns"
    /\ last.result.missing = <<nBedrag>>
    /\ Len(last.bags) = 2
    /\ DataRows(sheet) >= 1

RefGreater(cell, target) ==
    IF cell # <<>> /\ target # <<>> /\ AllDigits(cell) /\ AllDigits(target)
    THEN DigitsValue(cell) > DigitsValue(target)
    ELSE StrLess(target, cell)

\* the first data row whose non-empty cell in column col (1 for A) is greater than
\* the target, or the row after the last
RefInsertRow(sh, col, target) ==
    LET later == {i \in 2..Len(sh) : CellAt(sh, i, col) # <<>> /\ RefGreater(CellAt(sh, i, col), target)}
    IN  IF later = {} THEN Len(sh) + 1 ELSE CHOOSE i \in later : \A j \in later : i <= j

\* the ledger after is the ledger before with one row more at row p: the rows above
\* p are in place and the rows from p on are one row further down
RowInsertedAt(before, after, p) ==
    /\ Len(after) = Len(before) + 1
    /\ p >= 2 /\ p <= Len(after)
    /\ \A i \in 1..Len(before) : IF i < p THEN after[i] = before[i] ELSE after[i + 1] = before[i]

\* a reconciliation of one bag, with every ledger call succeeding, that inserted a row
InsertedOneBag(l) ==
    /\ l.op = "reconcile"
    /\ Len(l.bags) = 1
    /\ FailedCalls(l.calls) = {}
    /\ l.result.kind = "processed"
    /\ l.result.outcomes[1].action = "inserted"

\* C15: when reconciliation inserts a bag that the bag-id column does not hold, the
\* row number is that of the first data row whose non-empty bag-id cell is greater
\* than the bag id (as integers when both are integers, as texts otherwise), or one
\* past the last row when there is none; the new row stands at that row and the rows
\* from there on are one row further down.
C15_InsertBeforeFirstGreater ==
    [][(Idle /\ InsertedOneBag(last'))
       => LET id == last'.bags[1].id
              p == RefInsertRow(sheet, KeyColumn(sheet), id)
          IN  /\ ~InKeyColumn(sheet, id)
              /\ last'.result.outcomes[1].row = p
              /\ RowInsertedAt(sheet, sheet', p)
              /\ \E j \in 1..Len(sheet'[p]) : sheet'[p][j] = id]_vars

\* C15 witness: bag 7 was inserted above the row of bag 10, compared as integers,
\* and below the row of bag 5.
C15_Witness ==
    /\ InsertedOneBag(last)
    /\ last.bags[1].id = <<"7">>
    /\ KeyColumn(sheet) = 1
    /\ last.result.outcomes[1].row = 3
    /\ Len(sheet) = 4
    /\ CellAt(sheet, 2, 1) = <<"5">> /\ CellAt(sheet, 3, 1) = <<"7">> /\ CellAt(sheet, 4, 1) = <<"1", "0">>

\* C15, the comparison as texts reached: a bag was inserted above a row whose bag-id
\* cell is no integer
C15_TextCase ==
    /\ InsertedOneBag(last)
    /\ last.result.outcomes[1].row < Len(sheet)
    /\ CellAt(sheet, last.result.outcomes[1].row + 1, KeyColumn(sheet)) # <<>>
    /\ ~AllDigits(CellAt(sheet, last.result.outcomes[1].row + 1, KeyColumn(sheet)))

\* a reconciliation, with every ledger call succeeding, that found every bag
UpdatedEveryBag(l) ==
    /\ l.op = "reconcile"
    /\ FailedCalls(l.calls) = {}
    /\ l.result.kind = "processed"
    /\ \A k \in 1..Len(l.result.outcomes) : l.result.outcomes[k].action = "updated"

\* row i of the ledger after is row i before with marker, date and amount in E..G
MarkedInPlace(before, after, i, processing_date, amount) ==
    /\ CellAt(after, i, 5) = tX
    /\ CellAt(after, i, 6) = processing_date
    /\ CellAt(after, i, 7) = FormatAmount(amount)
    /\ \A j \in 1..Max({Len(before[i]), Len(after[i])}) :
          j \notin {5, 6, 7} => CellAt(after, i, j) = CellAt(before, i, j)

\* C16: when reconciliation finds a bag at row R it writes the cells E..G of row R
\* with "X", the processing date and the bag's total, and nothing else: the ledger
\* keeps its number of rows, every other row is as it was, and so are the cells of
\* row R outside E..G (A..D among them).
C16_UpdateWritesOnlyEtoG ==
    [][(Idle /\ UpdatedEveryBag(last'))
       => /\ Len(sheet') = Len(sheet)
          /\ \A i \in 1..Len(sheet) :
                LET hit == {k \in 1..Len(last'.bags) : last'.result.outcomes[k].row = i}
                IN  IF hit = {} THEN sheet'[i] = sheet[i]
                    ELSE \A k \in hit :
                            MarkedInPlace(sheet, sheet', i, last'.processing_date, last'.bags[k].amount)
          /\ \A k \in 1..Len(last'.bags) :
                /\ last'.result.outcomes[k].row \in 1..Len(sheet)
                /\ CellAt(sheet, last'.result.outcomes[k].row, KeyColumn(sheet)) = last'.bags[k].id]_vars

\* C16 witness: a registered bag (source, type and issue date in B..D) was reconciled
\* in place: its row has the marker in E and keeps B..D, among other rows.
C16_Witness ==
    /\ UpdatedEveryBag(last)
    /\ Len(last.bags) = 1
    /\ Len(sheet) >= 3
    /\ LET R == last.result.outcomes[1].row
       IN  /\ CellAt(sheet, R, 1) = last.bags[1].id
           /\ CellAt(sheet, R, 2) = <<"P">>
           /\ CellAt(sheet, R, 3) = tMini
           /\ CellAt(sheet, R, 4) = tDateB
           /\ CellAt(sheet, R, 5) = tX
           /\ CellAt(sheet, R, 7) = FormatAmount(last.bags[1].amount)

\* C17: the existence search skips the header row, so the row it returns is a data
\* row: a bag that reconciliation reports updated, or registration reports as
\* existing, stands at row 2 or below, also when its id is the text of the header
\* cell of the bag-id column.
C17_SearchSkipsHeader ==
    /\ (last.op = "reconcile" /\ last.result.kind \in {"processed", "errors"}) =>
           \A k \in 1..Len(last.result.outcomes) :
               last.result.outcomes[k].action = "updated" => last.result.outcomes[k].row >= 2
    /\ (last.op = "register" /\ last.result.kind = "already_exists") => last.result.row >= 2

\* C17, what the search at row 1 does to the ledger: the header keeps its names
C17_HeaderKept == sheet[1] \in Headers

\* the bags a reconciliation, with every ledger call succeeding, inserted
InsertedBags(l) ==
    IF l.op = "reconcile" /\ FailedCalls(l.calls) = {} /\ l.result.kind = "processed"
    THEN {l.bags[k].id : k \in {k \in 1..Len(l.bags) : l.result.outcomes[k].action = "inserted"}}
    ELSE {}

\* C18: a row inserted by reconciliation holds the bag id in the column the header
\* names Zaknummer, wherever that column is, so that a search of that column finds it.
C18_InsertedInKeyColumn ==
    \A id \in InsertedBags(last) :
        /\ InKeyColumn(sheet, id)
        /\ FindRowByValue(ReadSheet(sheet), id, KeyColumn(sheet) - 1) >= 2

\* C18 with Zaknummer heading column A
C18_InsertedInColumnA ==
    KeyColumn(sheet) = 1 =>
        \A id \in InsertedBags(last) :
            /\ InKeyColumn(sheet, id)
            /\ FindRowByValue(ReadSheet(sheet), id, KeyColumn(sheet) - 1) >= 2

\* C18, the case with Zaknummer heading column A reached: two bags inserted
C18_ColumnACase ==
    /\ KeyColumn(sheet) = 1
    /\ Cardinality(InsertedBags(last)) = 2

\* the position of the Afgiftedatum header in row 1, 0 when there is none
DateColumn(sh) ==
    LET at == {i \in 1..Len(sh[1]) : sh[1][i] = nAfgiftedatum}
    IN  IF at = {} THEN 0 ELSE Max(at)

\* a registration that went on to register_bag with every ledger call succeeding
RegisterRan(l) ==
    /\ l.op = "register"
    /\ l.result.kind # "invalid"
    /\ FailedCalls(l.calls) = {}

\* C19: register_bag for a bag id that the bag-id column does not hold inserts one
\* row, [bag id, source, type, date, "", "", ""], at the row found from the
\* Afgiftedatum column with the date as target: the first data row whose non-empty
\* issue date is greater than the date, else the row after the last.  The bag-id
\* column has no part in the position.
C19_RegisterInsertsByDate ==
    [][(Idle /\ RegisterRan(last') /\ ~InKeyColumn(sheet, last'.bag_id))
       => LET p == RefInsertRow(sheet, DateColumn(sheet), last'.date)
          IN  /\ last'.result.kind = "registered"
              /\ last'.result.row = p
              /\ RowInsertedAt(sheet, sheet', p)
              /\ sheet'[p] = <<last'.bag_id, last'.source, last'.bag_type, last'.date>>]_vars

\* C19 witness: bag 7 with issue date 1-2 was registered at row 2, above the row of
\* bag 5 with issue date 2-1 and below nothing: by bag id it would stand below 5.
C19_Witness ==
    /\ RegisterRan(last)
    /\ last.result.kind = "registered"
    /\ last.bag_id = <<"7">>
    /\ last.date = tDateA
    /\ last.result.row = 2
    /\ KeyColumn(sheet) = 1
    /\ Len(sheet) = 3
    /\ sheet[2] = <<<<"7">>, <<"P">>, tMini, tDateA>>
    /\ sheet[3] = <<<<"5">>, <<"P">>, tMini, tDateB>>

\* the data rows that hold the id in the Zaknummer column
RowsWith(sh, id) == {i \in 2..Len(sh) : CellAt(sh, i, KeyColumn(sh)) = id}

\* both requests are for the same bag and both searched for it before a row held it
BothFoundAbsent ==
    /\ procs # <<>>
    /\ procs[1].bag.id = procs[2].bag.id
    /\ \A p \in Requests : procs[p].pc \notin {"get_column_names", "find_row_by_value"}
                             /\ procs[p].row_num = 0

BothDone == procs # <<>> /\ \A p \in Requests : procs[p].pc = "done"

C13_OverwrittenCase ==
    /\ BothFoundAbsent /\ BothDone
    /\ procs[1].bag.id = <<"7">>
    /\ Cardinality(RowsWith(sheet, <<"7">>)) = 1
    /\ \E i \in 2..Len(sheet) : sheet[i] = <<>>

\* C14: once upload_file has saved the uploaded archive, the saved file no longer
\* exists when the request is finished, whichever way the request ended (result page,
\* corrupt archive, no .chr file, CHR parse failure, ledger failure).
C14_SavedFileRemoved ==
    (upload.pc = "done" /\ upload.saved) =>
        /\ ~upload.exists
        /\ upload.exit \in {"result", "invalid_zip", "no_chr", "parse_error"}

\* C14 witness: the request ended on a CHR parse failure and the file, still there
\* when the exception was caught, is gone.
C14_Witness ==
    /\ upload.pc = "done" /\ upload.saved /\ ~upload.exists
    /\ upload.exit = "parse_error"
    /\ chrResult.st = "error"

\* C14, the other ways out reached
C14_CorruptCase == upload.pc = "done" /\ upload.saved /\ upload.exit = "invalid_zip"

C14_NoChrCase == upload.pc = "done" /\ upload.saved /\ upload.exit = "no_chr"

C14_LedgerFailureCase ==
    /\ upload.pc = "done" /\ upload.saved /\ upload.exit = "result"
    /\ upload.status \in {"access_error", "bag_error", "missing_columns"}

C14_SuccessCase ==
    /\ upload.pc = "done" /\ upload.saved /\ upload.exit = "result"
    /\ upload.status = "success" /\ Len(sheet) > 1

\* the data rows in which the id stands, in whatever column
RowsCarrying(sh, id) == {i \in 2..Len(sh) : \E j \in 1..Len(sh[i]) : sh[i][j] = id}

\* the bag ids of the requests
RequestIds == BagIds \cup {<<"4", "2">>}

\* C22, first part: requests handled one after the other, on a ledger that starts
\* without data rows, never leave a bag id in more than one row.
C22_NoDuplicateRows ==
    \A id \in RequestIds : Cardinality(RowsCarrying(sheet, id)) <= 1

\* C22, first part, with Zaknummer heading column A
C22_NoDuplicateRowsInColumnA ==
    KeyColumn(sheet) = 1 => \A id \in RequestIds : Cardinality(RowsCarrying(sheet, id)) <= 1

\* C22, second part: a request adds one row for each bag it reports inserted or
\* registered, and no other row.
C22_OneRowPerInsert ==
    [][(Idle /\ ~Idle')
       => Len(sheet') = Len(sheet)
             + (IF last'.op = "reconcile" THEN last'.result.inserted
                ELSE IF last'.result.kind = "registered" THEN 1 ELSE 0)]_vars

\* C22, the case with Zaknummer heading column A reached: three bags, one row each,
\* the last request an update in place
C22_ColumnACase ==
    /\ KeyColumn(sheet) = 1
    /\ Len(sheet) = 4
    /\ \A id \in BagIds : Cardinality(RowsCarrying(sheet, id)) = 1
    /\ UpdatedEveryBag(last)

\* the request has found its bag at a row and has not written yet
AwaitsWrite(req) == req.pc = "write_to_sheet"

\* the row the request found holds its bag in the Zaknummer column
RowStillValid(req, sh) ==
    /\ req.row_num <= Len(sh)
    /\ CellAt(sh, req.row_num, KeyColumn(sh)) = req.bag.id

\* request p makes its insertDimension call in this step
InsertsRow(p) == procs[p].pc = "insert_dimension" /\ procs'[p].pc = "write_row"

C23_StaleCase ==
    /\ BothDone
    /\ \E q, p \in DOMAIN procs :
          /\ procs[q].action = "updated" /\ procs[q].bag.id = <<"1", "0">> /\ procs[q].row_num = 3
          /\ procs[p].action = "inserted" /\ procs[p].position = 3
          /\ CellAt(sheet, 3, 1) = <<"7">>
          /\ CellAt(sheet, 4, 1) = <<"1", "0">> /\ CellAt(sheet, 4, 6) = tDateB

\* the insertDimension call of an insert failed
InsertDimensionFailed(calls) ==
    \E i \in 1..Len(calls) : calls[i].name = "insert_dimension" /\ ~calls[i].ok

\* the insertDimension call of an insert succeeded and the write of the values that
\* follows it failed
InsertedRowWriteFailed(calls) ==
    \E i \in 2..Len(calls) :
        /\ calls[i].name = "write_to_sheet" /\ ~calls[i].ok
        /\ calls[i - 1].name = "insert_dimension" /\ calls[i - 1].ok

\* the rows of the ledger as a grid of at least n rows: the rows after the last row
\* that holds a value are empty
GridRows(sh, n) == [i \in 1..(IF n > Len(sh) THEN n ELSE Len(sh)) |-> IF i <= Len(sh) THEN sh[i] ELSE <<>>]

\* a reconciliation of one bag
OneBagRequest(l) == l.op = "reconcile" /\ Len(l.bags) = 1

BagFailed(l) ==
    /\ ~l.result.success
    /\ l.result.kind = "errors"
    /\ l.result.inserted = 0 /\ l.result.updated = 0
    /\ l.result.outcomes[1].action = "error"

\* C24: an insert is an insertDimension call followed by a write of the values.  When
\* the insertDimension call fails the ledger is unchanged; when the write fails the
\* ledger has one empty row more at the insert position, the rows that were there are
\* in their order with their contents, and the bag is reported as failed.  The write
\* is never attempted after a failed insertDimension.
C24_InsertIsTwoCalls ==
    [][(Idle /\ OneBagRequest(last'))
       => /\ InsertDimensionFailed(last'.calls)
               => /\ sheet' = sheet
                  /\ BagFailed(last')
                  /\ ~last'.calls[Len(last'.calls)].ok
                  /\ last'.calls[Len(last'.calls)].name = "insert_dimension"
          /\ InsertedRowWriteFailed(last'.calls)
               => LET p == RefInsertRow(sheet, KeyColumn(sheet), last'.bags[1].id)
                  IN  /\ BagFailed(last')
                      /\ last'.result.outcomes[1].row = p
                      /\ RowInsertedAt(sheet, GridRows(sheet', p), p)
                      /\ GridRows(sheet', p)[p] = <<>>
                      /\ Len(sheet') <= Len(sheet) + 1
                      /\ ~InKeyColumn(sheet', last'.bags[1].id)]_vars

\* C24 witness: the write of the values of bag 7 failed after its empty row had been
\* inserted between the rows of bags 5 and 10.
C24_Witness ==
    /\ OneBagRequest(last)
    /\ InsertedRowWriteFailed(last.calls)
    /\ last.bags[1].id = <<"7">>
    /\ BagFailed(last)
    /\ last.result.outcomes[1].row = 3
    /\ Len(sheet) = 4
    /\ CellAt(sheet, 2, 1) = <<"5">> /\ sheet[3] = <<>> /\ CellAt(sheet, 4, 1) = <<"1", "0">>

\* C24, the failed insertDimension reached: the request for bag 7 failed at that call
\* on a ledger that holds bags 5 and 10 in rows 2 and 3
C24_FirstCallCase ==
    /\ OneBagRequest(last)
    /\ InsertDimensionFailed(last.calls)
    /\ last.bags[1].id = <<"7">>
    /\ BagFailed(last)
    /\ Len(sheet) = 3
    /\ CellAt(sheet, 2, 1) = <<"5">> /\ CellAt(sheet, 3, 1) = <<"1", "0">>

\* C24, two bags: a failed write of the first bag's values leaves its empty row, and
\* the second bag is inserted all the same
C24_NextBagCase ==
    /\ last.op = "reconcile" /\ Len(last.bags) = 2
    /\ InsertedRowWriteFailed(last.calls)
    /\ last.result.outcomes[1].action = "error"
    /\ last.result.outcomes[2].action = "inserted"
    /\ \E i \in 2..Len(sheet) : sheet[i] = <<>>

====
